---- MODULE Spec2Model ----
(***************************************************************************)
(* ROS2Connector (nano_llm/plugins/robotics/ros_connector.py): a gateway   *)
(* that takes JSON commands from an input queue, validates them against    *)
(* the ROSMessage schema, resolves the message type, and routes them to    *)
(* publishers, subscribers, service clients and action clients kept in     *)
(* dictionaries keyed by endpoint name.                                    *)
(*                                                                         *)
(* The model follows the control flow of process() and run() statement by  *)
(* statement; a Python exception is the field exc of the working record.   *)
(***************************************************************************)
EXTENDS Integers, Sequences, FiniteSets, TLC

VARIABLES
    input_queue,      \* Plugin.input_queue: commands waiting for run()
    done,             \* history: one entry per call of process(): the command,
                      \* the exception raised, the ROSMessage object at the end
    run_state,        \* position of run(): "running", "crashed", "stopped"
    stop_flag,        \* Plugin.stop_flag
    pubs,             \* self.pubs            : name -> native publisher
    subs,             \* self.subs            : name -> native subscription
    service_clients,  \* self.service_clients : name -> native client
    action_clients,   \* self.action_clients  : name -> native action client
    loggers,          \* self.loggers         : logger name -> logger
    timers_dict,      \* self.timers_dict     : name -> native timer
    callback_groups,  \* self.callback_groups : name -> callback group
    goal_handles,     \* self.goal_handles    : name -> goal handle (0 is None)
    next_handle,      \* number of native objects allocated so far
    bus,              \* history: operations performed on the ROS 2 bus
    json_out,         \* events put on the 'json_out' output
    log,              \* lines written to a logger, stdout or the logging module
    exec_state,       \* self.exec: "spinning" (run() started its thread), "shutdown"
    destroy_exc       \* how a call of destroy() ended: "none" while not called

vars == <<input_queue, done, run_state, stop_flag, pubs, subs, service_clients,
          action_clients, loggers, timers_dict, callback_groups, goal_handles,
          next_handle, bus, json_out, log, exec_state, destroy_exc>>

registry == <<pubs, subs, service_clients, action_clients, loggers,
              timers_dict, callback_groups, goal_handles>>

\* The executor and the outcome of destroy().
teardown == <<exec_state, destroy_exc>>

-----------------------------------------------------------------------------
(* Bounds *)

\* Number of commands the producer puts on the input queue in one run.
MaxCmds == 2

-----------------------------------------------------------------------------
(* Python dictionaries *)

EmptyDict == [k \in {} |-> 0]
Has(d, k) == k \in DOMAIN d
Put(d, k, v) == [x \in (DOMAIN d) \cup {k} |-> IF x = k THEN v ELSE d[x]]
Del(d, k) == [x \in (DOMAIN d) \ {k} |-> d[x]]

-----------------------------------------------------------------------------
(* The command schema *)

\* NodeType: the four values of the enum.
NodeType == {"publisher", "subscriber", "service_client", "action_client"}

Names == {"chatter", "fib"}

\* A msg_type string, already split at '/'.
StringType == <<"std_msgs", "msg", "String">>
\* A package whose type names are spelled like the NodeType values: the only
\* type names the match statement of process() routes to an endpoint branch.
KindType(k) == <<"kind_msgs", "msg", k>>
BadFormat == <<"badformat">>
NoModule == <<"nopkg", "msg", "String">>
NoClass == <<"std_msgs", "msg", "Missing">>
\* The type a command of each kind ordinarily names.
NaturalType(k) ==
    CASE k = "service_client" -> <<"example_interfaces", "srv", "AddTwoInts">>
      [] k = "action_client"  -> <<"example_interfaces", "action", "Fibonacci">>
      [] OTHER                -> StringType

\* What importlib can import in the running environment, and the classes there.
Modules == {<<"std_msgs", "msg">>, <<"kind_msgs", "msg">>,
            <<"example_interfaces", "srv">>, <<"example_interfaces", "action">>}
Classes(pkg, dir) ==
    CASE <<pkg, dir>> = <<"std_msgs", "msg">> -> {"String"}
      [] <<pkg, dir>> = <<"kind_msgs", "msg">> -> NodeType
      [] <<pkg, dir>> = <<"example_interfaces", "srv">> -> {"AddTwoInts"}
      [] <<pkg, dir>> = <<"example_interfaces", "action">> -> {"Fibonacci"}
      [] OTHER -> {}

\* The payload 'msg' of a command: a JSON object (dict) or a JSON string.
DictPayload == [dict |-> TRUE, text |-> "hello"]
StrPayload(s) == [dict |-> FALSE, text |-> s]

\* str.lower() on the sentinel spellings.
Lower(s) ==
    CASE s \in {"destroy", "DESTROY", "Destroy"} -> "destroy"
      [] s \in {"cancel", "CANCEL", "Cancel"} -> "cancel"
      [] OTHER -> s

\* ros_log: "absent" (the field default ''), "unnamed" (a ROSLog whose name
\* is None), or the logger name given in the ROSLog.
Command(nt, mt, n, tp, payload, rl) ==
    [node_type |-> nt, msg_type |-> mt, name |-> n, timer_period |-> tp,
     msg |-> payload, ros_log |-> rl]

CreateCommands ==
    { Command(k, NaturalType(k), n, 0, DictPayload, "unnamed") :
        k \in NodeType, n \in Names }
    \cup { Command(k, KindType(k), n, 0, DictPayload, "unnamed") :
        k \in NodeType, n \in Names }
    \cup { Command("publisher", mt, n, 1, DictPayload, "unnamed") :
        mt \in {StringType, KindType("publisher")}, n \in Names }

SentinelCommands ==
    { Command(k, KindType(k), n, 0, StrPayload(s), "unnamed") :
        k \in NodeType, n \in Names, s \in {"destroy", "DESTROY"} }
    \cup { Command(k, NaturalType(k), "chatter", 0, StrPayload("destroy"), "unnamed") :
        k \in NodeType }
    \cup { Command("action_client", KindType("action_client"), n, 0,
                   StrPayload(s), "unnamed") : n \in Names, s \in {"cancel", "CANCEL"} }
    \cup { Command("action_client", NaturalType("action_client"), "chatter", 0,
                   StrPayload("cancel"), "unnamed") }

OddCommands ==
    { Command("publisher", BadFormat, "chatter", 0, DictPayload, "unnamed"),
      Command("subscriber", NoModule, "chatter", 0, DictPayload, "unnamed"),
      Command("publisher", NoClass, "chatter", 0, DictPayload, "unnamed"),
      Command("camera", StringType, "chatter", 0, DictPayload, "unnamed"),
      Command("publisher", StringType, "chatter", -1, DictPayload, "unnamed"),
      Command("subscriber", KindType("publisher"), "chatter", 0, DictPayload, "absent"),
      Command("subscriber", KindType("subscriber"), "fib", 0, DictPayload, "fib_events") }

Commands == CreateCommands \cup SentinelCommands \cup OddCommands

\* A schema whose msg field also admits a JSON string.
SchemaOk_any_payload(c) ==
    /\ c.node_type \in NodeType
    /\ c.timer_period >= 0

\* ROSMessage.model_validate_json: node_type is a NodeType, timer_period >= 0,
\* msg is a dict.
SchemaOk(c) ==
    /\ c.node_type \in NodeType
    /\ c.timer_period >= 0
    /\ c.msg.dict

-----------------------------------------------------------------------------
(* The working record of one call of process(): the dictionaries, the       *)
(* histories, the ROSMessage being processed and the pending exception.     *)

Raise(r, e) == [r EXCEPT !.exc = e]
Failed(r) == r.exc # "none"
WriteLog(r, line) == [r EXCEPT !.log = Append(@, line)]
BusOp(r, op, kind, name, h) ==
    [r EXCEPT !.bus = Append(@, [op |-> op, kind |-> kind, name |-> name, handle |-> h])]

\* A native object allocated by the node: handles are numbered from 1.
Alloc(r) == [r EXCEPT !.next_handle = @ + 1]
NewHandle(r) == r.next_handle + 1

-----------------------------------------------------------------------------
(* Validation, type resolution and the codec *)

\* get_ros_msg_from_json: the ROSMessage, or False after a ValidationError
\* (printed and logged).  r.parsed is FALSE when the result is False.
get_ros_msg_from_json(r, c) ==
    IF SchemaOk(c)
    THEN [r EXCEPT !.msg = c, !.parsed = TRUE]
    ELSE [WriteLog(r, "Invalid ROS2 message") EXCEPT !.msg = c, !.parsed = FALSE]

\* get_ros_message_type: split the type string into exactly three segments,
\* import the module, fetch the class.
get_ros_message_type(r) ==
    LET t == r.msg.msg_type IN
    IF ~r.parsed THEN Raise(r, "AttributeError")        \* False.msg_type
    ELSE IF Len(t) # 3 THEN Raise(r, "ValueError")      \* tuple unpacking
    ELSE IF <<t[1], t[2]>> \notin Modules THEN Raise(r, "ModuleNotFoundError")
    ELSE IF t[3] \notin Classes(t[1], t[2]) THEN Raise(r, "AttributeError")
    ELSE r

\* The first value get_ros_message_type returns: the type's name.
TypeName(c) == c.msg_type[Len(c.msg_type)]

\* json_to_ros_msg(msg, msg_class): set_message_fields wants a dictionary.
json_to_ros_msg(r) ==
    IF r.msg.msg.dict THEN r ELSE Raise(r, "TypeError")

\* A payload whose lower() always answers.
LowerFails_never(r) == FALSE

\* msg.msg.lower(): a dict has no method lower.
LowerFails(r) == r.msg.msg.dict
Sentinel(r) == Lower(r.msg.msg.text)

-----------------------------------------------------------------------------
(* Loggers *)

DefaultLoggerName(n) == n \o "_log"

\* create_logger: names the logger after the endpoint when the ROSLog has no
\* name, registers it unless the logging backend raises (env.logger_ok).
create_logger(r, env) ==
    IF r.msg.ros_log = "absent" THEN Raise(r, "AttributeError")   \* ''.name
    ELSE
      LET key == IF r.msg.ros_log = "unnamed"
                 THEN DefaultLoggerName(r.msg.name) ELSE r.msg.ros_log
          r1 == [r EXCEPT !.msg.ros_log = key]
      IN  IF env.logger_ok
          THEN [Alloc(r1) EXCEPT !.loggers = Put(@, key, NewHandle(r1))]
          ELSE WriteLog(r1, "Failed to create logger")

\* publish_log(self.loggers[msg.ros_log.name], text): the dictionary lookup
\* is evaluated before the call; a failure inside the call is swallowed.
publish_log(r, text) ==
    IF r.msg.ros_log = "absent" THEN Raise(r, "AttributeError")
    ELSE IF ~Has(r.loggers, r.msg.ros_log) THEN Raise(r, "KeyError")
    ELSE WriteLog(r, text)

-----------------------------------------------------------------------------
(* Endpoint operations.  Step(r, s): statement s runs unless an exception   *)
(* is pending in r.                                                         *)

Step(r, s) == IF Failed(r) THEN r ELSE s

\* del d[k] / d[k]: KeyError when the key is missing.
DelKey(r, f, k) ==
    IF Has(r[f], k) THEN [r EXCEPT ![f] = Del(@, k)] ELSE Raise(r, "KeyError")

\* del self.loggers[msg.ros_log.name]
DelLogger(r) ==
    IF r.msg.ros_log = "absent" THEN Raise(r, "AttributeError")
    ELSE DelKey(r, "loggers", r.msg.ros_log)

\* A native object is created and stored in dictionary f under the name.
Register(r, f, op, kind) ==
    [BusOp(Alloc(r), op, kind, r.msg.name, NewHandle(r))
        EXCEPT ![f] = Put(@, r.msg.name, NewHandle(r))]

\* d[name].destroy(); del d[name]
DestroyNative(r, f, op, kind) ==
    IF Has(r[f], r.msg.name)
    THEN [BusOp(r, op, kind, r.msg.name, r[f][r.msg.name])
            EXCEPT ![f] = Del(@, r.msg.name)]
    ELSE Raise(r, "KeyError")

\* if self.timers_dict.get(name): destroy the timer and delete its entry
DropTimer(r) ==
    IF Has(r.timers_dict, r.msg.name)
    THEN DestroyNative(r, "timers_dict", "destroy_timer", "publisher")
    ELSE r

\* self.timers_dict[name] = self.node.create_timer(...): the callback group
\* of the name is looked up while the arguments are built.
StartTimer(r) ==
    IF ~Has(r.callback_groups, r.msg.name) THEN Raise(r, "KeyError")
    ELSE Register(r, "timers_dict", "create_timer", "publisher")

\* create_publisher: the logger, then self.callback_group[...] (an attribute
\* the object does not have; the dictionary is self.callback_groups).
create_publisher(r, env) ==
    Step(create_logger(r, env), Raise(create_logger(r, env), "AttributeError"))

\* create_subscriber(msg): logger, callback group, type, native subscription;
\* a failure of the native call is logged and answered with False.
create_subscriber(r, env) ==
    LET r1 == create_logger(r, env)
        r2 == Step(r1, [Alloc(r1) EXCEPT
                          !.callback_groups = Put(@, r1.msg.name, NewHandle(r1))])
        r3 == Step(r2, get_ros_message_type(r2))
    IN  Step(r3, IF env.native_ok
                 THEN Register(r3, "subs", "create_subscription", "subscriber")
                 ELSE publish_log(r3, "Failed to create subscriber"))

\* The calls process() makes: create_subscriber, create_service_client and
\* create_action_client take (self, msg) and are called with (msg, msg_class).
call_create_subscriber(r, env) == Raise(r, "TypeError")
call_create_service_client(r, env) == Raise(r, "TypeError")
call_create_action_client(r, env) == Raise(r, "TypeError")

\* publish_ros_message: resolve and encode, then publish and log inside try;
\* the except branch logs the failure.
publish_ros_message(r, env) ==
    LET r1 == Step(get_ros_message_type(r), json_to_ros_msg(r))
        sent == publish_log(BusOp(r1, "publish", "publisher", r1.msg.name,
                                  r1.pubs[r1.msg.name]),
                            "Published message to topic")
    IN  Step(r1,
          IF Has(r1.pubs, r1.msg.name) /\ env.bus_ok /\ ~Failed(sent)
          THEN sent
          ELSE publish_log(r1, "Failed to publish message"))

\* send_service_request_async: call_async, then future.result() at once,
\* which is None while the response is outstanding; decoding None raises
\* inside try and the except branch logs.
send_service_request_async(r, env) ==
    LET r1 == get_ros_message_type(r)
        r2 == IF r1.msg.msg.dict /\ Has(r1.service_clients, r1.msg.name) /\ env.bus_ok
              THEN LET q == BusOp(r1, "call_async", "service_client", r1.msg.name,
                                  r1.service_clients[r1.msg.name])
                       l == publish_log(q, "Received response from service")
                   IN  IF Failed(l) THEN q ELSE l
              ELSE r1
    IN  Step(r1, publish_log(r2, "Failed to send service request"))

\* send_action_goal: send_goal() logs, waits for the server and encodes the
\* goal with json_to_ros_msg(msg.msg, ...), which reads .msg of a dict; the
\* exception is caught, logged, and None is returned.  send_goal_async and
\* the goal, feedback and result callbacks are behind that statement.
send_action_goal(r, env) ==
    IF ~Has(r.action_clients, r.msg.name) THEN Raise(r, "KeyError")
    ELSE LET r1 == get_ros_message_type(r)
             l == publish_log(r1, "Sending goal request to action server")
         IN  Step(r1, publish_log(IF Failed(l) THEN r1 ELSE l,
                                  "Failed to send action goal"))

\* The value send_action_goal returns: None.
NoGoalHandle == 0

-----------------------------------------------------------------------------
(* process(): the four branches of the match statement *)

\* The destroy branch of a publisher: timer, publisher, callback group and
\* logger entry, then a log line through the logger entry just deleted.
destroy_publisher(r) ==
    LET r1 == DropTimer(r)
        r2 == Step(r1, DestroyNative(r1, "pubs", "destroy_publisher", "publisher"))
        r3 == Step(r2, DelKey(r2, "callback_groups", r2.msg.name))
        r4 == Step(r3, DelLogger(r3))
    IN  Step(r4, publish_log(r4, "Publisher destroyed"))

\* case NodeType.PUBLISHER: each of the three conditions calls msg.msg.lower().
PublisherBranch(r, env) ==
    IF LowerFails(r) THEN Raise(r, "AttributeError")
    ELSE IF ~Has(r.pubs, r.msg.name) /\ Sentinel(r) # "destroy"
    THEN LET r1 == create_publisher(r, env)
         IN  Step(r1, IF r1.msg.timer_period = 0
                      THEN LET r2 == publish_ros_message(r1, env)
                           IN  Step(r2, publish_log(r2, "Published message to topic"))
                      ELSE r1)
    ELSE IF Has(r.pubs, r.msg.name) /\ Sentinel(r) # "destroy"
    THEN IF r.msg.timer_period = 0
         THEN LET r1 == DropTimer(r)
                  r2 == Step(r1, publish_ros_message(r1, env))
              IN  Step(r2, publish_log(r2, "Published message to topic"))
         ELSE LET r1 == DropTimer(r) IN Step(r1, StartTimer(r1))
    ELSE destroy_publisher(r)

destroy_subscriber(r) ==
    LET r1 == DestroyNative(r, "subs", "destroy_subscription", "subscriber")
        r2 == Step(r1, DelKey(r1, "callback_groups", r1.msg.name))
        r3 == Step(r2, DelLogger(r2))
    IN  Step(r3, publish_log(r3, "Subscriber destroyed"))

\* case NodeType.SUBSCRIBER: create when absent (whatever the payload), then
\* the destroy test.
SubscriberBranch(r, env) ==
    LET r1 == IF ~Has(r.subs, r.msg.name) THEN call_create_subscriber(r, env) ELSE r
    IN  Step(r1, IF LowerFails(r1) THEN Raise(r1, "AttributeError")
                 ELSE IF Sentinel(r1) = "destroy" THEN destroy_subscriber(r1)
                 ELSE r1)

destroy_service_client(r) ==
    LET r1 == DestroyNative(r, "service_clients", "destroy_client", "service_client")
        r2 == Step(r1, DelKey(r1, "callback_groups", r1.msg.name))
        r3 == Step(r2, DelLogger(r2))
    IN  Step(r3, publish_log(r3, "Service client destroyed"))

\* case NodeType.SERVICE_CLIENT: create and send when absent, else destroy on
\* the sentinel, else nothing.
ServiceClientBranch(r, env) ==
    IF ~Has(r.service_clients, r.msg.name)
    THEN LET r1 == call_create_service_client(r, env)
         IN  Step(r1, send_service_request_async(r1, env))
    ELSE IF LowerFails(r) THEN Raise(r, "AttributeError")
    ELSE IF Sentinel(r) = "destroy" THEN destroy_service_client(r)
    ELSE r

destroy_action_client(r) ==
    LET r1 == DestroyNative(r, "action_clients", "destroy_action_client", "action_client")
        r2 == Step(r1, DelKey(r1, "callback_groups", r1.msg.name))
        r3 == Step(r2, DelLogger(r2))
        r4 == Step(r3, DelKey(r3, "goal_handles", r3.msg.name))
    IN  Step(r4, publish_log(r4, "Action client destroyed"))

\* self.goal_handles[name].cancel_goal(), then the log line.
cancel_goal(r) ==
    IF ~Has(r.goal_handles, r.msg.name) THEN Raise(r, "KeyError")
    ELSE IF r.goal_handles[r.msg.name] = NoGoalHandle THEN Raise(r, "AttributeError")
    ELSE publish_log(BusOp(r, "cancel_goal", "action_client", r.msg.name,
                           r.goal_handles[r.msg.name]),
                     "Goal canceled for action server")

\* case NodeType.ACTION_CLIENT
ActionClientBranch(r, env) ==
    IF LowerFails(r) THEN Raise(r, "AttributeError")
    ELSE IF ~Has(r.action_clients, r.msg.name) /\ Sentinel(r) \notin {"cancel", "destroy"}
    THEN LET r1 == call_create_action_client(r, env)
             r2 == Step(r1, send_action_goal(r1, env))
         IN  Step(r2, [r2 EXCEPT !.goal_handles = Put(@, r2.msg.name, NoGoalHandle)])
    ELSE IF Sentinel(r) = "cancel" THEN cancel_goal(r)
    ELSE IF Sentinel(r) = "destroy" THEN destroy_action_client(r)
    ELSE r

\* match msg_type: the subject is the type's name, the third segment of the
\* msg_type string, compared with the NodeType values.
Route(r, env) ==
    LET t == TypeName(r.msg) IN
    CASE t = "publisher"      -> PublisherBranch(r, env)
      [] t = "subscriber"     -> SubscriberBranch(r, env)
      [] t = "service_client" -> ServiceClientBranch(r, env)
      [] t = "action_client"  -> ActionClientBranch(r, env)
      [] OTHER                -> WriteLog(r, "Invalid ROS2 node type")

\* process() as it would be if a subscriber command went to create_subscriber
\* first and the type were resolved there, after the logger and the callback
\* group are registered.
process_resolve_late(r, c, env) ==
    LET r1 == get_ros_msg_from_json(r, c)
        r2 == get_ros_message_type(r1)
        r3 == Step(r2, json_to_ros_msg(r2))
    IN  IF r1.parsed /\ r1.msg.node_type = "subscriber" /\ ~Has(r1.subs, r1.msg.name)
        THEN create_subscriber(r1, env)
        ELSE Step(r3, Route(r3, env))

\* process(input): validate, resolve the type, encode the payload, route.
process(r, c, env) ==
    LET r1 == get_ros_msg_from_json(r, c)
        r2 == get_ros_message_type(r1)
        r3 == Step(r2, json_to_ros_msg(r2))
    IN  Step(r3, Route(r3, env))

-----------------------------------------------------------------------------
(* The command loop *)

\* What the libraries under the node may do in one call: the logging backend
\* accepts the logger, the node allocates the native object, the transport
\* takes the message.
Envs == [logger_ok : BOOLEAN, native_ok : BOOLEAN, bus_ok : BOOLEAN]

\* The object's state as the working record of a call of process(); msg is
\* the ROSMessage object of the call, set by get_ros_msg_from_json.
Working ==
    [pubs |-> pubs, subs |-> subs, service_clients |-> service_clients,
     action_clients |-> action_clients, loggers |-> loggers,
     timers_dict |-> timers_dict, callback_groups |-> callback_groups,
     goal_handles |-> goal_handles, next_handle |-> next_handle, bus |-> bus,
     json_out |-> json_out, log |-> log,
     msg |-> Command("publisher", StringType, "chatter", 0, DictPayload, "absent"),
     parsed |-> FALSE, exc |-> "none"]

\* The object's state after the call.
Store(r) ==
    /\ pubs' = r.pubs
    /\ subs' = r.subs
    /\ service_clients' = r.service_clients
    /\ action_clients' = r.action_clients
    /\ loggers' = r.loggers
    /\ timers_dict' = r.timers_dict
    /\ callback_groups' = r.callback_groups
    /\ goal_handles' = r.goal_handles
    /\ next_handle' = r.next_handle
    /\ bus' = r.bus
    /\ json_out' = r.json_out

\* run(), the except branch: logging.error(f"...{traceback.format_exc()}") in
\* a module that does not import traceback.  The NameError leaves the while
\* loop and run().
ExceptBranch == "crashed"

\* __init__: empty dictionaries; run() has started the executor thread and
\* is at the top of its loop.
Init ==
    /\ input_queue = <<>>
    /\ done = <<>>
    /\ run_state = "running"
    /\ stop_flag = FALSE
    /\ pubs = EmptyDict
    /\ subs = EmptyDict
    /\ service_clients = EmptyDict
    /\ action_clients = EmptyDict
    /\ loggers = EmptyDict
    /\ timers_dict = EmptyDict
    /\ callback_groups = EmptyDict
    /\ goal_handles = EmptyDict
    /\ next_handle = 0
    /\ bus = <<>>
    /\ json_out = <<>>
    /\ log = <<>>
    /\ exec_state = "spinning"
    /\ destroy_exc = "none"

\* A producer puts a command on the input queue.
Enqueue(c) ==
    /\ Len(done) + Len(input_queue) < MaxCmds
    /\ input_queue' = Append(input_queue, c)
    /\ UNCHANGED <<done, run_state, stop_flag, registry, next_handle, bus,
                   json_out, log, teardown>>

\* One turn of run(): process_inputs takes the next command and hands it to
\* process(), which returns.
ProcessReturns ==
    /\ run_state = "running" /\ ~stop_flag /\ input_queue # <<>>
    /\ \E env \in Envs :
         LET r == process(Working, Head(input_queue), env) IN
           /\ ~Failed(r)
           /\ Store(r)
           /\ log' = r.log
           /\ done' = Append(done, [cmd |-> Head(input_queue), exc |-> r.exc,
                                    msg |-> r.msg])
    /\ input_queue' = Tail(input_queue)
    /\ UNCHANGED <<run_state, stop_flag, teardown>>

\* One turn of run(): process() raises, the exception reaches the except
\* branch of run().
ProcessRaises ==
    /\ run_state = "running" /\ ~stop_flag /\ input_queue # <<>>
    /\ \E env \in Envs :
         LET r == process(Working, Head(input_queue), env) IN
           /\ Failed(r)
           /\ Store(r)
           /\ log' = r.log
           /\ done' = Append(done, [cmd |-> Head(input_queue), exc |-> r.exc,
                                    msg |-> r.msg])
    /\ input_queue' = Tail(input_queue)
    /\ run_state' = ExceptBranch
    /\ UNCHANGED <<stop_flag, teardown>>

\* Plugin.stop(): the stop flag is set.
Stop ==
    /\ ~stop_flag
    /\ stop_flag' = TRUE
    /\ UNCHANGED <<input_queue, done, run_state, registry, next_handle, bus,
                   json_out, log, teardown>>

\* run() finds the stop flag set and returns.
RunExits ==
    /\ run_state = "running" /\ stop_flag
    /\ run_state' = "stopped"
    /\ UNCHANGED <<input_queue, done, stop_flag, registry, next_handle, bus,
                   json_out, log, teardown>>

\* destroy(): self.exec.shutdown() stops the executor; then
\* self.node.destroy_node('ros2_connector') passes an argument to a method
\* that takes none, and the TypeError ends destroy() before rclpy.shutdown(),
\* self.stop() and the removal from Plugin.Instances.
DestroyNodeCall == "TypeError"
destroy ==
    /\ destroy_exc = "none"
    /\ exec_state' = "shutdown"
    /\ destroy_exc' = DestroyNodeCall
    /\ UNCHANGED <<input_queue, done, run_state, stop_flag, registry, next_handle,
                   bus, json_out, log>>

Next ==
    \/ \E c \in Commands : Enqueue(c)
    \/ ProcessReturns
    \/ ProcessRaises
    \/ Stop
    \/ RunExits
    \/ destroy

Spec == Init /\ [][Next]_vars

\* run() is a thread of its own: it takes its turns while it can.
FairSpec == Spec /\ WF_vars(ProcessReturns) /\ WF_vars(ProcessRaises) /\ WF_vars(RunExits)

-----------------------------------------------------------------------------
(* Vocabulary of the properties *)

TypeResolves(t) ==
    /\ Len(t) = 3
    /\ <<t[1], t[2]>> \in Modules
    /\ t[3] \in Classes(t[1], t[2])

\* A command that passes the schema and whose type resolves: its payload is
\* a dict, so it is no sentinel.
IsCreate(c) == SchemaOk(c) /\ TypeResolves(c.msg_type)
\* A command whose payload is the destroy sentinel, in any letter case.
IsDestroy(c) ==
    c.node_type \in NodeType /\ ~c.msg.dict /\ Lower(c.msg.text) = "destroy"
\* A command that fails validation or type resolution.
FailsEarly(c) == ~SchemaOk(c) \/ ~TypeResolves(c.msg_type)

SameEndpoint(c, d) == c.node_type = d.node_type /\ c.name = d.name

EndpointMap(k) ==
    CASE k = "publisher"      -> pubs
      [] k = "subscriber"     -> subs
      [] k = "service_client" -> service_clients
      [] k = "action_client"  -> action_clients
Registered(k, n) == k \in NodeType /\ Has(EndpointMap(k), n)

CreateOps == {"create_publisher", "create_subscription", "create_client",
              "create_action_client"}
DestroyOps == {"destroy_publisher", "destroy_subscription", "destroy_client",
               "destroy_action_client"}
BusOpsOf(ops, k, n) ==
    {i \in 1..Len(bus) : bus[i].op \in ops /\ bus[i].kind = k /\ bus[i].name = n}
\* Native endpoints of (k, n) alive on the bus.
LiveNative(k, n) ==
    Cardinality(BusOpsOf(CreateOps, k, n)) - Cardinality(BusOpsOf(DestroyOps, k, n))

\* Nothing is kept for the endpoint (k, n).
NothingRemains(k, n) ==
    /\ ~Registered(k, n)
    /\ ~Has(timers_dict, n)
    /\ ~Has(callback_groups, n)
    /\ ~Has(loggers, DefaultLoggerName(n))
    /\ ~Has(goal_handles, n)

Last(q) == q[Len(q)]
\* The commands issued so far, in order: those processed, then those queued.
Issued == [i \in 1..Len(done) |-> done[i].cmd] \o input_queue
\* The gateway has done all it will do with the commands issued, and nobody
\* stopped it: the queue is drained or run() has ended on its own.
Settled == ~stop_flag /\ (input_queue = <<>> \/ run_state = "crashed")

\* This step is a call of process().
Processes == Len(done') = Len(done) + 1

-----------------------------------------------------------------------------
(* C1..C10 *)

\* C1: the same creation command processed twice in a row leaves exactly one
\* registry entry and one live native endpoint for its (kind, name).
C1_SameCreateTwiceOneEndpoint ==
    \A i \in 1..(Len(done) - 1) :
        ( /\ i + 1 = Len(done)
          /\ IsCreate(done[i].cmd)
          /\ done[i + 1].cmd = done[i].cmd )
        => /\ Registered(done[i].cmd.node_type, done[i].cmd.name)
           /\ LiveNative(done[i].cmd.node_type, done[i].cmd.name) = 1

\* C2: once a destroy command for a (kind, name) that an earlier command
\* created has been processed, the native handle has been destroyed and
\* nothing of the record remains in any dictionary.
C2_DestroyRemovesRecord ==
    \A i \in 1..(Len(done) - 1) :
        ( /\ i + 1 = Len(done)
          /\ IsCreate(done[i].cmd)
          /\ IsDestroy(done[i + 1].cmd)
          /\ SameEndpoint(done[i].cmd, done[i + 1].cmd) )
        => /\ NothingRemains(done[i].cmd.node_type, done[i].cmd.name)
           /\ BusOpsOf(DestroyOps, done[i].cmd.node_type, done[i].cmd.name) # {}

\* C3: when the commands issued end with a destroy for (kind, name) followed
\* by a non-destroy command for the same (kind, name), the gateway ends with
\* a fresh endpoint: registered, with a callback group and a logger, under a
\* native handle that was never destroyed.
C3_RecreateAfterDestroyIsFresh ==
    \A j \in 2..Len(Issued) :
        ( /\ j = Len(Issued)
          /\ Settled
          /\ IsDestroy(Issued[j - 1])
          /\ IsCreate(Issued[j])
          /\ SameEndpoint(Issued[j - 1], Issued[j]) )
        => /\ Registered(Issued[j].node_type, Issued[j].name)
           /\ Has(callback_groups, Issued[j].name)
           /\ Has(loggers, DefaultLoggerName(Issued[j].name))
           /\ \A i \in 1..Len(bus) :
                bus[i].op \in DestroyOps =>
                    bus[i].handle # EndpointMap(Issued[j].node_type)[Issued[j].name]

\* C4: processing a destroy command for a (kind, name) with no registered
\* endpoint raises nothing, writes a log line, and leaves the dictionaries
\* and the bus as they were.
C4_DestroyMissingIsLoggedNoOp ==
    [][ ( /\ Processes
          /\ IsDestroy(Head(input_queue))
          /\ ~Registered(Head(input_queue).node_type, Head(input_queue).name) )
        => /\ Last(done').exc = "none"
           /\ Len(log') > Len(log)
           /\ UNCHANGED <<registry, next_handle, bus>> ]_vars

\* C5: after a command that fails validation or type resolution has been
\* processed, run() is still in its loop, so the commands queued behind it
\* are taken next (unless the plugin is stopped).
C5_LoopContinuesAfterBadCommand ==
    ( /\ Len(done) > 0
      /\ FailsEarly(Last(done).cmd)
      /\ ~stop_flag )
    => run_state = "running"

\* C6: while the stop flag is unset run() is in its loop, whatever process()
\* raised.
C6_LoopSurvivesExceptions == ~stop_flag => run_state = "running"

\* C7: a call of process() on a command that fails validation or type
\* resolution changes no dictionary, allocates nothing and performs no bus
\* operation.
C7_FailedCommandLeavesRegistry ==
    [][ (Processes /\ FailsEarly(Last(done').cmd))
        => UNCHANGED <<registry, next_handle, bus>> ]_vars

\* C7, its case: a command with the type string "badformat" has been
\* processed, the ValueError of the resolution was raised, and the
\* dictionaries are empty.
C7_Witness ==
    /\ Len(done) > 0
    /\ Last(done).cmd.msg_type = BadFormat
    /\ Last(done).exc = "ValueError"
    /\ \A k \in NodeType : DOMAIN EndpointMap(k) = {}
    /\ DOMAIN loggers = {} /\ DOMAIN callback_groups = {}

\* C9: once an action goal command has been processed and its goal is no
\* longer in flight on a server that accepts, sends two feedbacks and
\* succeeds, json_out holds exactly four events for the action name:
\* acceptance, feedback, feedback, result.
GoalInFlight(n) ==
    \E i \in 1..Len(bus) :
        /\ bus[i].op = "send_goal" /\ bus[i].name = n
        /\ \A j \in (i + 1)..Len(bus) : ~(bus[j].op = "goal_result" /\ bus[j].name = n)
EventsOf(n) ==
    LET idx == {i \in 1..Len(json_out) : json_out[i].name = n}
        Nth[k \in 1..Cardinality(idx)] ==
            CHOOSE i \in idx : Cardinality({x \in idx : x <= i}) = k
    IN  [k \in 1..Cardinality(idx) |-> json_out[Nth[k]].event]
C9_GoalScenarioYieldsFourEvents ==
    \A i \in 1..Len(done) :
        ( /\ IsCreate(done[i].cmd)
          /\ done[i].cmd.node_type = "action_client"
          /\ ~GoalInFlight(done[i].cmd.name) )
        => EventsOf(done[i].cmd.name) = <<"accepted", "feedback", "feedback", "result">>

-----------------------------------------------------------------------------
(* C11..C20 *)

\* A command whose payload is the cancel sentinel, in any letter case.
IsCancel(c) ==
    c.node_type = "action_client" /\ ~c.msg.dict /\ Lower(c.msg.text) = "cancel"
IsSentinelCommand(c) == IsDestroy(c) \/ IsCancel(c)
\* A command that asks for a goal: an action_client command that is no sentinel.
IsGoalCommand(c) == IsCreate(c) /\ c.node_type = "action_client"
\* A publisher command that is no sentinel.
IsPublishCommand(c) == IsCreate(c) /\ c.node_type = "publisher"

\* The bus operations op performed for the name n, as positions in bus.
OpsOn(op, n) == {i \in 1..Len(bus) : bus[i].op = op /\ bus[i].name = n}
\* The server has reported an end of a goal of n (rejection or result).
GoalEnded(n) == OpsOn("goal_rejected", n) \cup OpsOn("goal_result", n) # {}

\* C11: when a goal command for an action name has been processed and then a
\* cancel command for the same name, and the server has not ended the goal,
\* cancellation has been requested on the bus through the handle stored in
\* goal_handles when the goal was sent, which is the handle the bus returned.
C11_CancelUsesStoredGoalHandle ==
    \A i \in 1..(Len(done) - 1) :
        ( /\ i + 1 = Len(done)
          /\ IsGoalCommand(done[i].cmd)
          /\ IsCancel(done[i + 1].cmd)
          /\ SameEndpoint(done[i].cmd, done[i + 1].cmd)
          /\ ~GoalEnded(done[i].cmd.name) )
        => \E g \in OpsOn("send_goal", done[i].cmd.name) :
           \E x \in OpsOn("cancel_goal", done[i].cmd.name) :
               g < x /\ bus[x].handle = bus[g].handle

\* C12: processing a cancel command for an action name that has no goal
\* handle raises nothing, writes a log line, and leaves the dictionaries and
\* the bus as they were.
C12_CancelWithoutGoalIsLoggedNoOp ==
    [][ ( /\ Processes
          /\ IsCancel(Head(input_queue))
          /\ ~Has(goal_handles, Head(input_queue).name) )
        => /\ Last(done').exc = "none"
           /\ Len(log') > Len(log)
           /\ UNCHANGED <<registry, next_handle, bus>> ]_vars

\* No command before position i asked for a publisher of the name.
FirstForPublisher(i) ==
    \A j \in 1..(i - 1) :
        ~(IsPublishCommand(done[j].cmd) /\ done[j].cmd.name = done[i].cmd.name)

\* C15: once a publisher command with timer_period 0 for a name without a
\* publisher has been processed, the publisher is registered, exactly one
\* publish was made on the topic, and no timer exists or was created.
C15_PublishOnceNoTimer ==
    \A i \in 1..Len(done) :
        ( /\ i = Len(done)
          /\ IsPublishCommand(done[i].cmd)
          /\ done[i].cmd.timer_period = 0
          /\ FirstForPublisher(i) )
        => /\ Registered("publisher", done[i].cmd.name)
           /\ Cardinality(OpsOn("publish", done[i].cmd.name)) = 1
           /\ ~Has(timers_dict, done[i].cmd.name)
           /\ OpsOn("create_timer", done[i].cmd.name) = {}

\* C16: once a publisher command with timer_period > 0 has been processed
\* for a name an earlier command gave a publisher, the name has exactly one
\* live timer, and it is the timer created last.
C16_OneLiveTimerAfterReplace ==
    \A i \in 1..(Len(done) - 1) :
        ( /\ i + 1 = Len(done)
          /\ IsPublishCommand(done[i].cmd)
          /\ IsPublishCommand(done[i + 1].cmd)
          /\ SameEndpoint(done[i].cmd, done[i + 1].cmd)
          /\ done[i + 1].cmd.timer_period > 0 )
        => LET n == done[i].cmd.name IN
           /\ Has(timers_dict, n)
           /\ Cardinality(OpsOn("create_timer", n))
                - Cardinality(OpsOn("destroy_timer", n)) = 1
           /\ \A x \in OpsOn("create_timer", n) : bus[x].handle <= timers_dict[n]

\* C17: once a publisher command with timer_period > 0 and then the same
\* command with timer_period 0 have been processed, the timer the first one
\* created has been destroyed and removed, and exactly one publish was made
\* after that.
C17_TimerThenPublishOnce ==
    \A i \in 1..(Len(done) - 1) :
        ( /\ i + 1 = Len(done)
          /\ FirstForPublisher(i)
          /\ IsPublishCommand(done[i].cmd)
          /\ done[i].cmd.timer_period > 0
          /\ done[i + 1].cmd = [done[i].cmd EXCEPT !.timer_period = 0] )
        => LET n == done[i].cmd.name IN
           /\ ~Has(timers_dict, n)
           /\ \E t \in OpsOn("create_timer", n) :
              \E x \in OpsOn("destroy_timer", n) :
                /\ t < x /\ bus[x].handle = bus[t].handle
                /\ Cardinality({p \in OpsOn("publish", n) : p > x}) = 1

\* What a command that transfers data makes the bus do.
PayloadOps == CreateOps \cup {"publish", "create_timer", "call_async", "send_goal"}

\* C18: processing a command whose payload is a sentinel never hands the
\* payload to the codec (the codec answers a string with TypeError), never
\* publishes, creates a timer, sends a service request or a goal, and never
\* creates an endpoint or allocates a native object.
C18_SentinelNeverProcessedAsPayload ==
    [][ (Processes /\ IsSentinelCommand(Head(input_queue)))
        => /\ Last(done').exc # "TypeError"
           /\ \A i \in (Len(bus) + 1)..Len(bus') : bus'[i].op \notin PayloadOps
           /\ next_handle' = next_handle
           /\ \A k \in NodeType : DOMAIN EndpointMap(k)' \subseteq DOMAIN EndpointMap(k)
           /\ DOMAIN timers_dict' \subseteq DOMAIN timers_dict ]_vars

\* A sentinel command has been processed after an ordinary one.
C18_Witness ==
    /\ Len(done) = 2
    /\ IsCreate(done[1].cmd)
    /\ IsSentinelCommand(done[2].cmd)
    /\ SameEndpoint(done[1].cmd, done[2].cmd)

SentinelSpellings == {"destroy", "DESTROY", "Destroy", "cancel", "CANCEL", "Cancel"}
\* The result of process() without the command itself.
Outcome(r) == [r EXCEPT !.msg = 0]

\* C19: whenever a sentinel command is the next one a running gateway takes,
\* it and every command differing from it only in the letter case of the
\* payload are accepted by the schema and give the same state and outputs.
C19_SentinelCaseInsensitive ==
    ( /\ run_state = "running"
      /\ input_queue # <<>>
      /\ IsSentinelCommand(Head(input_queue)) )
    => \A s \in SentinelSpellings : \A env \in Envs :
         Lower(s) = Lower(Head(input_queue).msg.text)
         => LET c == Head(input_queue)
                a == process(Working, c, env)
                b == process(Working, [c EXCEPT !.msg = StrPayload(s)], env)
            IN  a.parsed /\ b.parsed /\ Outcome(a) = Outcome(b)

\* C20: once creation commands for two kinds sharing a name have been
\* processed, each kind has its own registry entry and its own live native
\* endpoint, with different handles.
C20_KindsSharingNameIndependent ==
    \A i \in 1..(Len(done) - 1) :
        ( /\ i + 1 = Len(done)
          /\ IsCreate(done[i].cmd)
          /\ IsCreate(done[i + 1].cmd)
          /\ done[i].cmd.name = done[i + 1].cmd.name
          /\ done[i].cmd.node_type # done[i + 1].cmd.node_type )
        => LET n == done[i].cmd.name
               k1 == done[i].cmd.node_type
               k2 == done[i + 1].cmd.node_type
           IN  /\ Registered(k1, n) /\ Registered(k2, n)
               /\ LiveNative(k1, n) = 1 /\ LiveNative(k2, n) = 1
               /\ EndpointMap(k1)[n] # EndpointMap(k2)[n]

-----------------------------------------------------------------------------
(* C21..C30 *)

\* A service_client command that is no sentinel.
IsServiceCommand(c) == IsCreate(c) /\ c.node_type = "service_client"
\* The positions in done of the service commands processed for the name n.
ServiceCommandsFor(n) ==
    {i \in 1..Len(done) : IsServiceCommand(done[i].cmd) /\ done[i].cmd.name = n}

\* C21: every service_client command processed that is no sentinel has sent
\* one async request: for each service name the bus has seen as many
\* call_async as such commands were processed, on a client that is registered.
C21_EachServiceCommandSendsRequest ==
    \A n \in Names :
        /\ Cardinality(OpsOn("call_async", n)) = Cardinality(ServiceCommandsFor(n))
        /\ ServiceCommandsFor(n) # {} => Registered("service_client", n)

\* C26: the executor is shut down only once the command loop has been told
\* to stop, and no command is processed while the executor is shut down.
C26_ShutdownOrder ==
    [][ /\ (exec_state = "spinning" /\ exec_state' = "shutdown") => stop_flag
        /\ Processes => exec_state' = "spinning" ]_vars

-----------------------------------------------------------------------------
(* C31..C38 *)

\* The line the fallback branch of the match statement writes.
FallbackLine == "Invalid ROS2 node type"

\* C31: processing a command that passes the schema and whose type resolves
\* never writes the line of the invalid-node-type fallback: the command
\* went to the branch of its node_type.
C31_RoutedByNodeType ==
    [][ (Processes /\ IsCreate(Head(input_queue)))
        => \A i \in (Len(log) + 1)..Len(log') : log'[i] # FallbackLine ]_vars

====
